---- MODULE Spec2Model ----
(***************************************************************************)
(* Model of src/bowling_game.py : class BowlingGame.                       *)
(*                                                                         *)
(* The object's state is the list `rolls` and the counter `current_roll`.  *)
(* Every public method is one action.  The outcome of the last call (the   *)
(* value returned or the exception raised) is kept in `op`, `arg`,        *)
(* `raised` and `ret` so that properties can speak about it.               *)
(*                                                                         *)
(* Python lists are 0-based: rolls[i] of the source is At(r, i) here.      *)
(***************************************************************************)
EXTENDS Integers, Sequences, FiniteSets, TLC

VARIABLES rolls, current_roll, op, arg, raised, ret

vars == <<rolls, current_roll, op, arg, raised, ret>>

(***************************************************************************)
(* Program constants.                                                      *)
(***************************************************************************)
\* a strike / spare is 10 pins; also the largest accepted pin count
AllPins == 10
\* `for frame in range(9)`: the frames walked before the tenth
FirstFrames == 9

(***************************************************************************)
(* Bounds of the model.                                                    *)
(***************************************************************************)
\* rolls of a game that may differ from the game's base value
MaxDev == 1
\* rolls the caller still records after the game is complete
MaxExtra == 1

\* the valid pin counts
Pins == 0 .. AllPins
\* pin counts of the games explored in full, and the repeated values the
\* games are built on: the all-open, all-spare and all-strike games
PlayPins == {0, 3, 5, 10}
Fillers == {3, 5, 10}

\* n copies of v
Rep(n, v) == [i \in 1 .. n |-> v]
\* the games listed as testable properties, played roll by roll
Scripts ==
    { Rep(20, 0),
      Rep(20, 1),
      <<6, 4, 3>> \o Rep(17, 0),
      <<10, 3, 4>> \o Rep(16, 0),
      Rep(21, 5),
      Rep(12, 10) }

\* Arguments of roll(): a Python value is its type and its value; the value
\* of a float is given in tenths (3.5 is 35).
IntArg(n) == [type |-> "int", val |-> n]
FloatArg(tenths) == [type |-> "float", val |-> tenths]
NoArg == [type |-> "none", val |-> 0]
InvalidArgs == {IntArg(0 - 1), IntArg(AllPins + 1), FloatArg(35)}

\* Python's None
None == "None"

\* rolls[i] of the source (0-based)
At(r, i) == r[i + 1]

(***************************************************************************)
(* Helpers of the class (pure functions of the roll list).                 *)
(***************************************************************************)
is_strike(r, frame_index) ==
    frame_index < Len(r) /\ At(r, frame_index) = AllPins

is_spare(r, frame_index) ==
    frame_index + 1 < Len(r)
    /\ At(r, frame_index) + At(r, frame_index + 1) = AllPins

\* slips of _strike_bonus: a lookahead of one roll, and of three
strike_bonus_one(r, frame_index) ==
    IF frame_index + 1 < Len(r) THEN At(r, frame_index + 1) ELSE 0

strike_bonus_three(r, frame_index) ==
    IF frame_index + 3 < Len(r)
    THEN At(r, frame_index + 1) + At(r, frame_index + 2)
         + At(r, frame_index + 3)
    ELSE IF frame_index + 2 < Len(r)
         THEN At(r, frame_index + 1) + At(r, frame_index + 2)
         ELSE IF frame_index + 1 < Len(r)
              THEN At(r, frame_index + 1)
              ELSE 0

strike_bonus(r, frame_index) ==
    IF frame_index + 2 < Len(r)
    THEN At(r, frame_index + 1) + At(r, frame_index + 2)
    ELSE IF frame_index + 1 < Len(r)
         THEN At(r, frame_index + 1)
         ELSE 0

spare_bonus(r, frame_index) ==
    IF frame_index + 2 < Len(r)
    THEN At(r, frame_index + 2)
    ELSE 0

\* slip of _score_tenth_frame: an open tenth frame also counts a third roll
score_tenth_frame_all(r, frame_index) ==
    IF is_strike(r, frame_index)
    THEN 10 + strike_bonus(r, frame_index)
    ELSE IF is_spare(r, frame_index)
    THEN 10 + spare_bonus(r, frame_index)
    ELSE IF frame_index + 2 < Len(r)
         THEN At(r, frame_index) + At(r, frame_index + 1)
              + At(r, frame_index + 2)
         ELSE IF frame_index + 1 < Len(r)
              THEN At(r, frame_index) + At(r, frame_index + 1)
              ELSE IF frame_index < Len(r)
                   THEN At(r, frame_index)
                   ELSE 0

score_tenth_frame(r, frame_index) ==
    IF is_strike(r, frame_index)
    THEN IF frame_index + 2 < Len(r)
         THEN 10 + At(r, frame_index + 1) + At(r, frame_index + 2)
         ELSE IF frame_index + 1 < Len(r)
              THEN 10 + At(r, frame_index + 1)
              ELSE 10
    ELSE IF is_spare(r, frame_index)
    THEN IF frame_index + 2 < Len(r)
         THEN 10 + At(r, frame_index + 2)
         ELSE 10
    ELSE IF frame_index + 1 < Len(r)
         THEN At(r, frame_index) + At(r, frame_index + 1)
         ELSE IF frame_index < Len(r)
              THEN At(r, frame_index)
              ELSE 0

(***************************************************************************)
(* score(): one pass of the loop body, then the loop, then the method.     *)
(* The open-frame branch reads rolls[frame_index] and                      *)
(* rolls[frame_index + 1] without a bounds check: Python raises IndexError *)
(* when either is absent.                                                  *)
(***************************************************************************)
score_frame(r, frame_index) ==
    IF is_strike(r, frame_index)
    THEN [raised |-> "none", add |-> 10 + strike_bonus(r, frame_index),
          next |-> frame_index + 1]
    ELSE IF is_spare(r, frame_index)
    THEN [raised |-> "none", add |-> 10 + spare_bonus(r, frame_index),
          next |-> frame_index + 2]
    ELSE IF frame_index + 1 < Len(r)
    THEN [raised |-> "none",
          add |-> At(r, frame_index) + At(r, frame_index + 1),
          next |-> frame_index + 2]
    ELSE [raised |-> "IndexError", add |-> 0, next |-> frame_index]

RECURSIVE score_loop(_, _, _, _)
score_loop(r, frame, frame_index, sc) ==
    IF frame = FirstFrames
    THEN [raised |-> "none", score |-> sc, frame_index |-> frame_index]
    ELSE LET f == score_frame(r, frame_index)
         IN  IF f.raised # "none"
             THEN [raised |-> f.raised, score |-> sc,
                   frame_index |-> frame_index]
             ELSE score_loop(r, frame + 1, f.next, sc + f.add)

score(r) ==
    LET w == score_loop(r, 0, 0, 0)
    IN  IF w.raised # "none"
        THEN [raised |-> w.raised, value |-> None]
        ELSE [raised |-> "none",
              value |-> w.score + score_tenth_frame(r, w.frame_index)]

(***************************************************************************)
(* get_frame_scores()                                                      *)
(***************************************************************************)
\* slip of get_frame_scores: a spare frame is entered without its bonus
frame_scores_frame_nobonus(r, frame_index) ==
    IF is_strike(r, frame_index)
    THEN [entry |-> 10 + strike_bonus(r, frame_index),
          next |-> frame_index + 1]
    ELSE IF frame_index + 1 < Len(r)
    THEN [entry |-> At(r, frame_index) + At(r, frame_index + 1),
          next |-> frame_index + 2]
    ELSE [entry |-> IF frame_index < Len(r) THEN At(r, frame_index) ELSE 0,
          next |-> frame_index + 2]

frame_scores_frame(r, frame_index) ==
    IF is_strike(r, frame_index)
    THEN [entry |-> 10 + strike_bonus(r, frame_index),
          next |-> frame_index + 1]
    ELSE IF is_spare(r, frame_index)
    THEN [entry |-> 10 + spare_bonus(r, frame_index),
          next |-> frame_index + 2]
    ELSE IF frame_index + 1 < Len(r)
    THEN [entry |-> At(r, frame_index) + At(r, frame_index + 1),
          next |-> frame_index + 2]
    ELSE [entry |-> IF frame_index < Len(r) THEN At(r, frame_index) ELSE 0,
          next |-> frame_index + 2]

RECURSIVE frame_scores_loop(_, _, _, _)
frame_scores_loop(r, frame, frame_index, frame_scores) ==
    IF frame = FirstFrames
    THEN Append(frame_scores, score_tenth_frame(r, frame_index))
    ELSE LET f == frame_scores_frame(r, frame_index)
         IN  frame_scores_loop(r, frame + 1, f.next,
                               Append(frame_scores, f.entry))

get_frame_scores(r) == frame_scores_loop(r, 0, 0, <<>>)

(***************************************************************************)
(* is_game_complete()                                                      *)
(***************************************************************************)
\* slips of the tenth-frame test of is_game_complete: no bonus roll awaited,
\* the strike forgotten, and exactly two rolls demanded of an open frame
complete_tenth_two(r, frame_index) == Len(r) - frame_index >= 2

complete_tenth_spare_only(r, frame_index) ==
    LET rolls_in_tenth == Len(r) - frame_index
    IN  IF rolls_in_tenth < 2
        THEN FALSE
        ELSE IF is_spare(r, frame_index)
             THEN rolls_in_tenth >= 3
             ELSE rolls_in_tenth >= 2

complete_tenth_exact(r, frame_index) ==
    LET rolls_in_tenth == Len(r) - frame_index
    IN  IF rolls_in_tenth < 2
        THEN FALSE
        ELSE IF is_strike(r, frame_index) \/ is_spare(r, frame_index)
             THEN rolls_in_tenth >= 3
             ELSE rolls_in_tenth = 2

complete_tenth(r, frame_index) ==
    LET rolls_in_tenth == Len(r) - frame_index
    IN  IF rolls_in_tenth < 2
        THEN FALSE
        ELSE IF is_strike(r, frame_index) \/ is_spare(r, frame_index)
             THEN rolls_in_tenth >= 3
             ELSE rolls_in_tenth >= 2

RECURSIVE complete_loop(_, _, _)
complete_loop(r, frame, frame_index) ==
    IF frame = FirstFrames
    THEN complete_tenth(r, frame_index)
    ELSE IF frame_index >= Len(r)
    THEN FALSE
    ELSE IF is_strike(r, frame_index)
    THEN complete_loop(r, frame + 1, frame_index + 1)
    ELSE IF frame_index + 1 >= Len(r)
    THEN FALSE
    ELSE complete_loop(r, frame + 1, frame_index + 2)

is_game_complete(r) == complete_loop(r, 0, 0)

(***************************************************************************)
(* The games the caller plays.  roll() accepts any list of pin counts; the *)
(* exploration is bounded to the games over PlayPins that differ in at most *)
(* MaxDev rolls from a game of one repeated value, to the scripted games,  *)
(* and to at most MaxExtra rolls after the game is complete.  The          *)
(* conditions are prefix closed.                                           *)
(***************************************************************************)
Deviations(r, f) == Cardinality({i \in 1 .. Len(r) : r[i] # f})

InScope(r) ==
    /\ \A i \in 1 .. Len(r) : r[i] \in PlayPins
    /\ \E f \in Fillers : Deviations(r, f) <= MaxDev

IsPrefix(r, g) == Len(r) <= Len(g) /\ SubSeq(g, 1, Len(r)) = r

Scripted(r) == \E g \in Scripts : IsPrefix(r, g)

NotLongOver(r) ==
    Len(r) <= MaxExtra \/ ~is_game_complete(SubSeq(r, 1, Len(r) - MaxExtra - 1))

Playable(r) == (InScope(r) \/ Scripted(r)) /\ NotLongOver(r)

(***************************************************************************)
(* __init__                                                                *)
(***************************************************************************)
Init ==
    /\ rolls = <<>>
    /\ current_roll = 0
    /\ op = "__init__"
    /\ arg = NoArg
    /\ raised = "none"
    /\ ret = None

(***************************************************************************)
(* roll(pins)                                                              *)
(***************************************************************************)
\* slip of the range test: 11 is let through
valid_pins_upto11(pins) ==
    ~(pins.type # "int" \/ pins.val < 0 \/ pins.val > AllPins + 1)

valid_pins(pins) ==
    ~(pins.type # "int" \/ pins.val < 0 \/ pins.val > AllPins)

\* slip of roll: the pin count is put at the front of the list
roll_prepend(pins) ==
    /\ op' = "roll"
    /\ arg' = pins
    /\ ret' = None
    /\ IF ~valid_pins(pins)
       THEN /\ raised' = "ValueError"
            /\ UNCHANGED <<rolls, current_roll>>
       ELSE /\ raised' = "none"
            /\ rolls' = <<pins.val>> \o rolls
            /\ current_roll' = current_roll + 1

roll(pins) ==
    /\ op' = "roll"
    /\ arg' = pins
    /\ ret' = None
    /\ IF ~valid_pins(pins)
       THEN /\ raised' = "ValueError"
            /\ UNCHANGED <<rolls, current_roll>>
       ELSE /\ raised' = "none"
            /\ rolls' = Append(rolls, pins.val)
            /\ current_roll' = current_roll + 1

Roll ==
    \/ \E p \in Pins : Playable(Append(rolls, p)) /\ roll(IntArg(p))
    \/ \E a \in InvalidArgs : roll(a)

Score ==
    /\ op' = "score"
    /\ arg' = NoArg
    /\ raised' = score(rolls).raised
    /\ ret' = score(rolls).value
    /\ UNCHANGED <<rolls, current_roll>>

GetFrameScores ==
    /\ op' = "get_frame_scores"
    /\ arg' = NoArg
    /\ raised' = "none"
    /\ ret' = get_frame_scores(rolls)
    /\ UNCHANGED <<rolls, current_roll>>

IsGameComplete ==
    /\ op' = "is_game_complete"
    /\ arg' = NoArg
    /\ raised' = "none"
    /\ ret' = is_game_complete(rolls)
    /\ UNCHANGED <<rolls, current_roll>>

Next == Roll \/ Score \/ GetFrameScores \/ IsGameComplete

Spec == Init /\ [][Next]_vars

(***************************************************************************)
(* Properties.                                                             *)
(***************************************************************************)
Complete == is_game_complete(rolls)

RECURSIVE SumSeq(_)
SumSeq(s) == IF s = <<>> THEN 0 ELSE Head(s) + SumSeq(Tail(s))

\* Standard ten-pin scoring of a finished game, frame by frame: cursor c is
\* the first roll of frame k.
RefFrame(r, c) ==
    IF At(r, c) = 10
    THEN 10 + At(r, c + 1) + At(r, c + 2)
    ELSE IF At(r, c) + At(r, c + 1) = 10
         THEN 10 + At(r, c + 2)
         ELSE At(r, c) + At(r, c + 1)

RECURSIVE RefWalk(_, _, _)
RefWalk(r, k, c) ==
    IF k > 10
    THEN 0
    ELSE RefFrame(r, c) + RefWalk(r, k + 1, IF At(r, c) = 10 THEN c + 1 ELSE c + 2)

RefScore(r) == RefWalk(r, 1, 0)

\* C1: on every complete game score() returns the standard ten-pin total of
\* the reference frame walk; 20 ones score 20, 6,4,3 then gutters scores 16,
\* 10,3,4 then gutters scores 24 and 21 fives score 150.
C1_ScoreIsStandardTotal ==
    /\ Complete =>
          LET std == RefScore(rolls)
          IN  /\ score(rolls) = [raised |-> "none", value |-> std]
              /\ op = "score" => raised = "none" /\ ret = std
    /\ rolls = Rep(20, 1) => score(rolls).value = 20
    /\ rolls = <<6, 4, 3>> \o Rep(17, 0) => score(rolls).value = 16
    /\ rolls = <<10, 3, 4>> \o Rep(16, 0) => score(rolls).value = 24
    /\ rolls = Rep(21, 5) => score(rolls).value = 150

C1_Witness ==
    /\ op = "score"
    /\ rolls = <<10, 3, 4>> \o Rep(16, 0)
    /\ Complete
    /\ ret = 24

\* C2: score() raises no exception in any reachable state.
C2_ScoreNeverRaises == op = "score" => raised = "none"

\* what roll() accepts according to its contract
ValidArg(a) == a.type = "int" /\ a.val \in 0 .. 10

\* C3: a roll() call whose argument is not an integer in 0..10 raises
\* ValueError and leaves rolls and current_roll as they were.
C3_InvalidRollRejected ==
    [][(op' = "roll" /\ ~ValidArg(arg')) =>
          /\ raised' = "ValueError"
          /\ rolls' = rolls
          /\ current_roll' = current_roll]_vars

C3_Witness ==
    /\ op = "roll"
    /\ arg = FloatArg(35)
    /\ raised = "ValueError"
    /\ Len(rolls) = 3
    /\ current_roll = 3

\* C4: on every complete game get_frame_scores() has exactly 10 entries and
\* their sum is score().
C4_FrameScoresSumToScore ==
    Complete =>
       LET fs == get_frame_scores(rolls)
           sc == score(rolls)
       IN  /\ Len(fs) = 10
           /\ sc.raised = "none"
           /\ SumSeq(fs) = sc.value
           /\ op = "get_frame_scores" =>
                 Len(ret) = 10 /\ SumSeq(ret) = sc.value

C4_Witness ==
    /\ op = "get_frame_scores"
    /\ Complete
    /\ \E i \in 1 .. Len(rolls) : rolls[i] = 10
    /\ \E i \in 1 .. Len(rolls) : rolls[i] = 5
    /\ Len(ret) = 10
    /\ SumSeq(ret) > 150

AllTens(r) == \A i \in 1 .. Len(r) : r[i] = 10

\* C5: while every recorded roll is 10 the game is incomplete after 0..11
\* rolls and complete at the 12th, and score() is then 300.
C5_PerfectGame ==
    AllTens(rolls) =>
       /\ Len(rolls) < 12 => ~Complete
       /\ Len(rolls) = 12 =>
             Complete /\ score(rolls) = [raised |-> "none", value |-> 300]
       /\ (op = "is_game_complete" /\ Len(rolls) <= 12) =>
             (ret <=> Len(rolls) = 12)

C5_Witness ==
    /\ rolls = Rep(12, 10)
    /\ op = "is_game_complete"
    /\ ret = TRUE

\* no roll of 10 at a frame start in frames 1-9: the frames start at the
\* even indices 0, 2, ..., 16
NoEarlyStrike(r) == \A k \in 0 .. 8 : 2 * k < Len(r) => At(r, 2 * k) # 10

\* C6 as stated: in a game with no strike in frames 1-9, is_game_complete()
\* is false up to 19 rolls, at 20 rolls it is true exactly when rolls 19 and
\* 20 do not sum to 10, and when they do it is false at 20 and true at 21.
C6_AsStated ==
    NoEarlyStrike(rolls) =>
       /\ Len(rolls) <= 19 => ~Complete
       /\ Len(rolls) = 20 => (Complete <=> At(rolls, 18) + At(rolls, 19) # 10)
       /\ (Len(rolls) = 21 /\ At(rolls, 18) + At(rolls, 19) = 10) => Complete

\* C6 amended: in a game with no strike in frames 1-9, is_game_complete() is
\* false up to 19 rolls; at 20 rolls it is true exactly when roll 19 is not
\* a 10 and rolls 19 and 20 do not sum to 10; when roll 19 is a 10 or the
\* two sum to 10 it is false at 20 rolls and true at 21.
C6_TenthFrameCompletion ==
    NoEarlyStrike(rolls) =>
       /\ Len(rolls) <= 19 => ~Complete
       /\ Len(rolls) = 20 =>
             (Complete <=> /\ At(rolls, 18) # 10
                           /\ At(rolls, 18) + At(rolls, 19) # 10)
       /\ (/\ Len(rolls) = 21
           /\ \/ At(rolls, 18) = 10
              \/ At(rolls, 18) + At(rolls, 19) = 10) => Complete
       /\ (op = "is_game_complete" /\ Len(rolls) <= 19) => ret = FALSE

C6_Witness ==
    /\ op = "is_game_complete"
    /\ Len(rolls) = 20
    /\ NoEarlyStrike(rolls)
    /\ At(rolls, 18) = 10
    /\ At(rolls, 19) = 5
    /\ ret = FALSE

\* C7: the empty game is in progress, and once is_game_complete() is true
\* it stays true after every further call.
C7_CompleteIsTerminal ==
    [][/\ rolls = <<>> => ~Complete
       /\ Complete => is_game_complete(rolls')]_vars

C7_Witness ==
    /\ op = "roll"
    /\ raised = "none"
    /\ Len(rolls) = 21
    /\ is_game_complete(SubSeq(rolls, 1, 20))
    /\ Complete

\* C8: the roll list is append-only: an accepted roll(pins) adds pins at
\* the end and keeps every earlier element, every element is in 0..10, and
\* score(), get_frame_scores() and is_game_complete() leave the list alone.
C8_AppendOnly ==
    [][/\ (op' = "roll" /\ ValidArg(arg')) =>
             rolls' = Append(rolls, arg'.val)
       /\ op' # "roll" => rolls' = rolls
       /\ Len(rolls') >= Len(rolls)
       /\ SubSeq(rolls', 1, Len(rolls)) = rolls
       /\ \A i \in 1 .. Len(rolls') : rolls'[i] \in 0 .. 10]_vars

C8_Witness ==
    /\ op = "roll"
    /\ raised = "none"
    /\ Len(rolls) = 4
    /\ rolls[1] # rolls[4]
    /\ arg = IntArg(rolls[4])

\* C9: once the game is complete, rolls recorded afterwards change neither
\* score() nor get_frame_scores().  (A step that leaves the list as it is
\* leaves both results as they are; the steps that matter change it.)
C9_LateRollsIgnored ==
    [][(rolls' # rolls /\ Complete) =>
          /\ score(rolls') = score(rolls)
          /\ get_frame_scores(rolls') = get_frame_scores(rolls)]_vars

C9_Witness ==
    /\ op = "score"
    /\ Len(rolls) = 21
    /\ is_game_complete(SubSeq(rolls, 1, 20))
    /\ rolls[21] = 5
    /\ raised = "none"
    /\ ret = score(SubSeq(rolls, 1, 20)).value

\* C10: for every recorded list, legal or not, each entry of
\* get_frame_scores() is in 0..30 and a returned score() is in 0..300.
C10_ScoresInRange ==
    /\ LET fs == get_frame_scores(rolls)
       IN  \A i \in 1 .. Len(fs) : fs[i] \in 0 .. 30
    /\ LET sc == score(rolls)
       IN  sc.raised = "none" => sc.value \in 0 .. 300
    /\ op = "get_frame_scores" => \A i \in 1 .. Len(ret) : ret[i] \in 0 .. 30
    /\ (op = "score" /\ raised = "none") => ret \in 0 .. 300

C10_Witness ==
    /\ op = "get_frame_scores"
    /\ rolls = <<5, 10>> \o Rep(20, 5)
    /\ ret[1] = 15

====
